---- MODULE Spec2Model ----
(***************************************************************************)
(* Model of simple_websocket/ws.py: one connection (Base, specialised by   *)
(* Server or Client), its foreground caller and its background thread.     *)
(* The protocol engine (wsproto) and the socket are external: the engine   *)
(* is the queue of events it has produced and not yet handed out, the peer *)
(* is a nondeterministic source of reads.                                  *)
(***************************************************************************)
EXTENDS Integers, Sequences, FiniteSets, TLC

\* ---------------------------------------------------------------- bounds
MaxEvents == 2      \* events the engine emits from transport reads
MaxBatch == 2       \* events the engine produces from one transport read
MaxCalls == 2       \* send/receive/close calls the application makes

\* ------------------------------------------------------------- vocabulary
MsgTypes == {"TextMessage", "BytesMessage"}
SteadyTypes == {"CloseConnection", "Ping", "TextMessage", "BytesMessage"}
Statuses == {403, 404}
Timeouts == {"none", "zero", "pos"}

Event(t, d) == [type |-> t, data |-> d]
IsMsg(e) == e.type \in MsgTypes

\* sequences of event types of length 0..n
TypeSeqs(n) == UNION {[1..k -> SteadyTypes] : k \in 0..n}

\* the engine numbers nothing itself: payloads are made distinct here so that
\* a reordering or a duplication is visible
MkEvents(ts, base) ==
    [i \in 1..Len(ts) |->
        Event(ts[i], IF ts[i] \in MsgTypes
                     THEN base + Cardinality({j \in 1..i : ts[j] \in MsgTypes})
                     ELSE 0)]

VARIABLES
    is_server,      \* Base.is_server
    connected,      \* Base.connected
    input_buffer,   \* Base.input_buffer
    event,          \* Base.event (threading.Event flag)
    engEvents,      \* events the engine holds for the next ws.events()
    engState,       \* engine connection state: "open" | "local_closing" |
                    \* "remote_closing" | "closed"
    peerEOF,        \* the peer has shut the stream: reads return no bytes
    hsSeen,         \* "none" | "accept" | "reject": handshake event emitted
    rejStatus,      \* status of the emitted rejection, 0 if none
    sockOut,        \* what was written to the transport, in order
    sockClosed,     \* Client.close() has closed the socket
    fgPc,           \* position of the foreground caller
    bgPc,           \* position of Base._thread
    out_data,       \* _handle_events local
    keep_going,     \* _handle_events local
    firstDone,      \* the first self.connected = self._handle_events() ran
    closeSeen,      \* history: _handle_events dispatched a close event
    errSeen,        \* history: _handle_events caught a LocalProtocolError
    batchPings,     \* history: pings dispatched in the current batch
    calls,          \* application calls started
    lastCall,       \* "none" | "send" | "receive" | "close"
    lastResult,     \* outcome of the last finished call
    rcvTimeout,     \* timeout of the receive() in progress / last made
    ctorError,      \* status carried by the ConnectionError, 0 if none
    emitted,        \* history: message events the engine emitted
    returned,       \* history: values receive() returned
    nEmitted,       \* events the engine emitted from transport reads
    wasConnected,   \* history: connected has been true
    closeReturned,  \* history: a close() call has returned normally
    rcvArrived,     \* history: a message was appended while this receive()
                    \* was blocked with no timeout
    rcvWaits,       \* event.wait() calls made by the receive() in progress
    rcvSets,        \* notifications available to the receive() in progress
    rcvEndOpenEmpty,\* connected and empty queue when the last receive ended
    rcvStartClosed, \* history: this receive() was called after the closure
    rcvBlockedOpen  \* history: this receive() slept in wait() while connected

vars == <<is_server, connected, input_buffer, event, engEvents, engState,
          peerEOF, closeSeen, errSeen, batchPings,
          hsSeen, rejStatus, sockOut, sockClosed, fgPc, bgPc, out_data,
          keep_going, firstDone, calls, lastCall, lastResult, rcvTimeout,
          ctorError, emitted, returned, nEmitted, wasConnected, closeReturned,
          rcvArrived, rcvWaits, rcvSets, rcvEndOpenEmpty, rcvStartClosed,
          rcvBlockedOpen>>

shared == <<is_server, connected, input_buffer, event>>
engine == <<engEvents, engState, peerEOF, hsSeen, rejStatus, emitted,
           nEmitted>>
bgLocal == <<bgPc, out_data, keep_going, firstDone, closeSeen, errSeen,
            batchPings>>
\* what only the foreground caller writes
fgOnly == <<fgPc, calls, lastCall, lastResult, rcvTimeout, ctorError,
            returned, closeReturned, rcvWaits, rcvEndOpenEmpty, sockClosed,
            rcvStartClosed, rcvBlockedOpen>>

\* Base.__init__ up to self.ws = WSConnection(connection_type)
Init ==
    /\ is_server \in BOOLEAN
    /\ connected = FALSE
    /\ input_buffer = <<>>
    /\ event = FALSE
    /\ engEvents = <<>>
    /\ engState = "open"
    /\ peerEOF = FALSE
    /\ closeSeen = FALSE
    /\ errSeen = FALSE
    /\ batchPings = 0
    /\ hsSeen = "none"
    /\ rejStatus = 0
    /\ sockOut = <<>>
    /\ sockClosed = FALSE
    /\ fgPc = "hs"
    /\ bgPc = "notstarted"
    /\ out_data = <<>>
    /\ keep_going = TRUE
    /\ firstDone = FALSE
    /\ calls = 0
    /\ lastCall = "none"
    /\ lastResult = "none"
    /\ rcvTimeout = "none"
    /\ ctorError = 0
    /\ emitted = <<>>
    /\ returned = <<>>
    /\ nEmitted = 0
    /\ wasConnected = FALSE
    /\ closeReturned = FALSE
    /\ rcvArrived = FALSE
    /\ rcvWaits = 0
    /\ rcvSets = 0
    /\ rcvEndOpenEmpty = FALSE
    /\ rcvStartClosed = FALSE
    /\ rcvBlockedOpen = FALSE

\* ----------------------------------------------------------- the engine
\* ws.receive_data(in_data): the events the engine makes of one read.
\* Before the handshake is settled (client whose reply arrived incomplete)
\* the first event is the acceptance or the rejection; after a rejection the
\* engine emits nothing more.
Batches ==
    IF hsSeen = "reject" THEN {<<>>}
    ELSE IF hsSeen = "none"
    THEN {<<>>}
         \cup {<<Event("RejectConnection", s)>> : s \in Statuses}
         \cup {<<Event("AcceptConnection", 0)>> \o MkEvents(ts, Len(emitted)) :
                 ts \in TypeSeqs(MaxBatch - 1)}
    ELSE {MkEvents(ts, Len(emitted)) : ts \in TypeSeqs(MaxBatch)}

Fits(b) == nEmitted + Len(b) <= MaxEvents

HsAfter(b) ==
    IF b # <<>> /\ b[1].type = "AcceptConnection" THEN "accept"
    ELSE IF b # <<>> /\ b[1].type = "RejectConnection" THEN "reject"
    ELSE hsSeen

RejAfter(b) ==
    IF b # <<>> /\ b[1].type = "RejectConnection" THEN b[1].data ELSE rejStatus

\* outcomes of sock.send(): None, or the exception it raises
WriteOutcomes == IF sockClosed THEN {"OSError"}
                 ELSE {"ok", "BrokenPipeError", "OSError"}

\* ------------------------------------------------------------ construction
\* Server.handshake: the request is synthesised from environ and fed in
ServerHandshake ==
    /\ fgPc = "hs"
    /\ is_server
    /\ engEvents' = <<Event("Request", 0)>>
    /\ hsSeen' = "accept"
    /\ fgPc' = "start"
    /\ UNCHANGED <<shared, engState, peerEOF, rejStatus, emitted, nEmitted, sockOut,
                   sockClosed, bgLocal, calls, lastCall, lastResult,
                   rcvTimeout, ctorError, returned, closeReturned, rcvWaits,
                   rcvEndOpenEmpty, wasConnected, rcvArrived, rcvSets,
                   rcvStartClosed, rcvBlockedOpen>>

\* Client.handshake: one write, one read, one pass over ws.events()
ClientHandshake ==
    /\ fgPc = "hs"
    /\ ~is_server
    /\ \E b \in Batches :
        /\ Fits(b)
        /\ hsSeen' = HsAfter(b)
        /\ rejStatus' = RejAfter(b)
        /\ nEmitted' = nEmitted + Len(b)
        /\ emitted' = emitted \o SelectSeq(b, IsMsg)
        /\ IF HsAfter(b) = "reject"
           THEN /\ fgPc' = "failed"
                /\ ctorError' = b[1].data
                /\ engEvents' = <<>>
           ELSE /\ fgPc' = "start"
                /\ ctorError' = 0
                /\ engEvents' = IF b = <<>> THEN <<>> ELSE Tail(b)
    /\ sockOut' = Append(sockOut, <<"fg", "Request">>)
    /\ UNCHANGED <<shared, engState, peerEOF, sockClosed, bgLocal, calls, lastCall,
                   lastResult, rcvTimeout, returned, closeReturned, rcvWaits,
                   rcvEndOpenEmpty, wasConnected, rcvArrived, rcvSets,
                   rcvStartClosed, rcvBlockedOpen>>

\* self.thread = thread_class(target=self._thread); self.thread.start()
ThreadStart ==
    /\ fgPc = "start"
    /\ fgPc' = "init_wait"
    /\ bgPc' = "he_next"
    /\ out_data' = <<>>
    /\ keep_going' = TRUE
    /\ UNCHANGED <<shared, engine, sockOut, sockClosed, firstDone, closeSeen,
                   errSeen, batchPings, calls,
                   lastCall, lastResult, rcvTimeout, ctorError, returned,
                   closeReturned, rcvWaits, rcvEndOpenEmpty, wasConnected,
                   rcvArrived, rcvSets,
                   rcvStartClosed, rcvBlockedOpen>>

\* self.event.wait()
InitWait ==
    /\ fgPc = "init_wait"
    /\ event
    /\ fgPc' = "init_clear"
    /\ UNCHANGED <<shared, engine, sockOut, sockClosed, bgLocal, calls,
                   lastCall, lastResult, rcvTimeout, ctorError, returned,
                   closeReturned, rcvWaits, rcvEndOpenEmpty, wasConnected,
                   rcvArrived, rcvSets,
                   rcvStartClosed, rcvBlockedOpen>>

\* self.event.clear(); the constructor returns
InitClear ==
    /\ fgPc = "init_clear"
    /\ event' = FALSE
    /\ fgPc' = "ready"
    /\ UNCHANGED <<is_server, connected, input_buffer, engine, sockOut,
                   sockClosed, bgLocal, calls, lastCall, lastResult,
                   rcvTimeout, ctorError, returned, closeReturned, rcvWaits,
                   rcvEndOpenEmpty, wasConnected, rcvArrived, rcvSets,
                   rcvStartClosed, rcvBlockedOpen>>

\* ------------------------------------------------- the background thread
\* self.event.set() as seen by a receive() in progress: a notification is
\* one raise of the flag
SetsAfter == IF event THEN rcvSets ELSE rcvSets + 1

\* ws.send(): what the engine encodes in which state; anything else raises
\* LocalProtocolError.  An acceptance belongs to the handshake; a message or
\* a pong needs an open connection; a close frame can still answer the
\* peer's.
EngineAccepts(kind, st) ==
    IF kind = "Accept" THEN TRUE
    ELSE IF hsSeen # "accept" THEN FALSE
    ELSE IF kind = "Close" THEN st \in {"open", "remote_closing"}
    ELSE st = "open"

\* the engine's state once ws.events() has handed out the peer's close frame
StateOnClose(st) ==
    IF st = "open" THEN "remote_closing"
    ELSE IF st = "local_closing" THEN "closed"
    ELSE st

\* the engine's state once it has encoded a close frame for this side
StateOnSendClose(st) ==
    IF st = "remote_closing" THEN "closed" ELSE "local_closing"

ReplyOfNoPong(e) ==
    IF e.type = "Request" THEN <<"Accept">>
    ELSE IF e.type = "CloseConnection" /\ is_server THEN <<"Close">>
    ELSE <<>>

\* replies the dispatch of one event asks the engine for
ReplyOf(e) ==
    IF e.type = "Request" THEN <<"Accept">>
    ELSE IF e.type = "CloseConnection" /\ is_server THEN <<"Close">>
    ELSE IF e.type = "Ping" THEN <<"Pong">>
    ELSE <<>>

\* events after whose dispatch self.event.set() is called
Signals(e) == e.type \in {"CloseConnection", "TextMessage", "BytesMessage"}

DiscardOnErrorKeep(od) == od

\* except LocalProtocolError: out_data = b''
DiscardOnError(od) == <<>>

\* _handle_events: the body of the for loop, for one event
HandleEvent ==
    /\ bgPc = "he_next"
    /\ engEvents # <<>>
    /\ LET e == Head(engEvents)
           st == IF e.type = "CloseConnection" THEN StateOnClose(engState)
                 ELSE engState
           reply == ReplyOf(e)
       IN
       /\ engEvents' = Tail(engEvents)
       /\ IF reply = <<>> \/ EngineAccepts(reply[1], st)
          THEN /\ out_data' = out_data \o reply
               /\ engState' = IF reply = <<"Close">> THEN StateOnSendClose(st)
                               ELSE st
               /\ input_buffer' = IF IsMsg(e) THEN Append(input_buffer, e)
                                  ELSE input_buffer
               /\ keep_going' = IF e.type = "CloseConnection" THEN FALSE
                                ELSE keep_going
               /\ bgPc' = IF Signals(e) THEN "he_set" ELSE "he_next"
               /\ rcvArrived' = (rcvArrived \/
                                 (IsMsg(e) /\ fgPc = "r_blocked"
                                  /\ rcvTimeout = "none" /\ connected))
               /\ closeSeen' = (closeSeen \/ e.type = "CloseConnection")
               /\ batchPings' = IF e.type = "Ping" THEN batchPings + 1
                                ELSE batchPings
               /\ UNCHANGED errSeen
          ELSE /\ out_data' = DiscardOnError(out_data)
               /\ engState' = st
               /\ keep_going' = FALSE
               /\ bgPc' = "he_set"
               /\ errSeen' = TRUE
               /\ UNCHANGED <<input_buffer, rcvArrived, closeSeen, batchPings>>
    /\ UNCHANGED <<is_server, connected, event, peerEOF, hsSeen, rejStatus,
                   emitted, nEmitted, sockOut, firstDone, wasConnected,
                   rcvSets, fgOnly>>

\* _handle_events: self.event.set() of the branch just taken
HandleSet ==
    /\ bgPc = "he_set"
    /\ event' = TRUE
    /\ rcvSets' = SetsAfter
    /\ bgPc' = "he_next"
    /\ UNCHANGED <<is_server, connected, input_buffer, engine, sockOut,
                   out_data, keep_going, firstDone, closeSeen, errSeen,
                   batchPings, wasConnected, rcvArrived, fgOnly>>

\* _handle_events: if out_data: self.sock.send(out_data)
HandleFlush ==
    /\ bgPc = "he_next"
    /\ engEvents = <<>>
    /\ IF out_data = <<>>
       THEN bgPc' = "he_ret" /\ UNCHANGED sockOut
       ELSE \E w \in WriteOutcomes :
              IF w = "ok"
              THEN bgPc' = "he_ret" /\ sockOut' = Append(sockOut, <<"bg", out_data>>)
              ELSE bgPc' = "crashed" /\ UNCHANGED sockOut
    /\ UNCHANGED <<shared, engine, out_data, keep_going, firstDone, closeSeen,
                   errSeen, batchPings, wasConnected, rcvArrived, rcvSets,
                   fgOnly>>

LoopForever(c) == TRUE

\* _thread: while self.connected:
LoopContinues(c) == c

\* _thread: self.connected = self._handle_events()
HandleReturn ==
    /\ bgPc = "he_ret"
    /\ connected' = keep_going
    /\ wasConnected' = (wasConnected \/ keep_going)
    /\ firstDone' = TRUE
    /\ bgPc' = IF ~firstDone THEN "first_set"
               ELSE IF LoopContinues(keep_going) THEN "recv" ELSE "done"
    /\ UNCHANGED <<is_server, input_buffer, event, engine, sockOut, out_data,
                   keep_going, closeSeen, errSeen, batchPings, rcvArrived,
                   rcvSets, fgOnly>>

\* _thread: self.event.set() after the first pass
FirstSet ==
    /\ bgPc = "first_set"
    /\ event' = TRUE
    /\ rcvSets' = SetsAfter
    /\ bgPc' = IF LoopContinues(connected) THEN "recv" ELSE "done"
    /\ UNCHANGED <<is_server, connected, input_buffer, engine, sockOut,
                   out_data, keep_going, firstDone, closeSeen, errSeen,
                   batchPings, wasConnected, rcvArrived, fgOnly>>

\* _thread: in_data = self.sock.recv(...); self.ws.receive_data(in_data)
\* for a read that returned bytes
ThreadRecv ==
    /\ bgPc = "recv"
    /\ ~sockClosed
    /\ ~peerEOF
    /\ \E b \in Batches :
        /\ Fits(b)
        /\ engEvents' = b
        /\ hsSeen' = HsAfter(b)
        /\ rejStatus' = RejAfter(b)
        /\ nEmitted' = nEmitted + Len(b)
        /\ emitted' = emitted \o SelectSeq(b, IsMsg)
    /\ out_data' = <<>>
    /\ keep_going' = TRUE
    /\ batchPings' = 0
    /\ bgPc' = "he_next"
    /\ UNCHANGED <<shared, engState, peerEOF, sockOut, firstDone, closeSeen,
                   errSeen, wasConnected, rcvArrived, rcvSets, fgOnly>>

\* _thread: in_data = self.sock.recv(...) returns b'' (the peer has shut the
\* stream); self.ws.receive_data(b'') makes no event and the loop goes on
ThreadRecvEOF ==
    /\ bgPc = "recv"
    /\ ~sockClosed
    /\ peerEOF' = TRUE
    /\ engEvents' = <<>>
    /\ out_data' = <<>>
    /\ keep_going' = TRUE
    /\ batchPings' = 0
    /\ bgPc' = "he_next"
    /\ UNCHANGED <<shared, engState, hsSeen, rejStatus, emitted, nEmitted,
                   sockOut, firstDone, closeSeen, errSeen, wasConnected,
                   rcvArrived, rcvSets, fgOnly>>

\* _thread: except (OSError, ConnectionResetError): self.connected = False
ThreadRecvError ==
    /\ bgPc = "recv"
    /\ connected' = FALSE
    /\ bgPc' = "err_set"
    /\ UNCHANGED <<is_server, input_buffer, event, engine, sockOut, out_data,
                   keep_going, firstDone, closeSeen, errSeen, batchPings,
                   wasConnected, rcvArrived, rcvSets, fgOnly>>

\* _thread: self.event.set(); break
ThreadErrorSet ==
    /\ bgPc = "err_set"
    /\ event' = TRUE
    /\ rcvSets' = SetsAfter
    /\ bgPc' = "done"
    /\ UNCHANGED <<is_server, connected, input_buffer, engine, sockOut,
                   out_data, keep_going, firstDone, closeSeen, errSeen,
                   batchPings, wasConnected, rcvArrived, fgOnly>>

\* ------------------------------------------------------ threading.Event
\* event.wait(timeout) entered with the flag as given: "true" (returns True),
\* "false" (returns False at once) or "park" (the caller sleeps in wait)
EventWaitFalsy(flag, timeout) ==
    IF flag THEN "true" ELSE "park"

EventWaitSpurious(flag, timeout) ==
    IF flag THEN "true"
    ELSE IF timeout = "pos" THEN "park"
    ELSE "false"

EventWait(flag, timeout) ==
    IF flag THEN "true"
    ELSE IF timeout = "zero" THEN "false"
    ELSE "park"

\* ----------------------------------------------------------------- send()
\* send: if not self.connected: raise ConnectionClosed()
SendRefusesNever(c) == FALSE

SendRefuses(c) == ~c

SendCheck ==
    /\ fgPc = "ready"
    /\ calls < MaxCalls
    /\ calls' = calls + 1
    /\ lastCall' = "send"
    /\ IF SendRefuses(connected)
       THEN fgPc' = "ready" /\ lastResult' = "ConnectionClosed"
       ELSE fgPc' = "s_encode" /\ lastResult' = "pending"
    /\ UNCHANGED <<shared, engine, sockOut, sockClosed, bgLocal, rcvTimeout,
                   ctorError, returned, closeReturned, rcvWaits,
                   rcvEndOpenEmpty, wasConnected, rcvArrived, rcvSets,
                   rcvStartClosed, rcvBlockedOpen>>

\* send: out_data = self.ws.send(Message(...) / TextMessage(...))
SendEncode ==
    /\ fgPc = "s_encode"
    /\ IF EngineAccepts("Message", engState)
       THEN fgPc' = "s_write" /\ lastResult' = "pending"
       ELSE fgPc' = "ready" /\ lastResult' = "LocalProtocolError"
    /\ UNCHANGED <<shared, engine, sockOut, sockClosed, bgLocal, calls,
                   lastCall, rcvTimeout, ctorError, returned, closeReturned,
                   rcvWaits, rcvEndOpenEmpty, wasConnected, rcvArrived,
                   rcvSets,
                   rcvStartClosed, rcvBlockedOpen>>

\* send: self.sock.send(out_data)
SendWrite ==
    /\ fgPc = "s_write"
    /\ \E w \in WriteOutcomes :
        IF w = "ok"
        THEN sockOut' = Append(sockOut, <<"fg", "Message">>) /\ lastResult' = "ok"
        ELSE UNCHANGED sockOut /\ lastResult' = "OSError"
    /\ fgPc' = "ready"
    /\ UNCHANGED <<shared, engine, sockClosed, bgLocal, calls, lastCall,
                   rcvTimeout, ctorError, returned, closeReturned, rcvWaits,
                   rcvEndOpenEmpty, wasConnected, rcvArrived, rcvSets,
                   rcvStartClosed, rcvBlockedOpen>>

\* -------------------------------------------------------------- receive()
\* receive(timeout) is called; while self.connected ...
ReceiveCall ==
    /\ fgPc = "ready"
    /\ calls < MaxCalls
    /\ calls' = calls + 1
    /\ lastCall' = "receive"
    /\ lastResult' = "pending"
    /\ \E t \in Timeouts : rcvTimeout' = t
    /\ rcvWaits' = 0
    /\ rcvSets' = IF event THEN 1 ELSE 0
    /\ rcvArrived' = FALSE
    /\ rcvEndOpenEmpty' = FALSE
    /\ rcvStartClosed' = (wasConnected /\ ~connected)
    /\ rcvBlockedOpen' = FALSE
    /\ fgPc' = "r_check"
    /\ UNCHANGED <<shared, engine, sockOut, sockClosed, bgLocal, ctorError,
                   returned, closeReturned, wasConnected>>

\* while self.connected ...
ReceiveCheckConnected ==
    /\ fgPc = "r_check"
    /\ fgPc' = IF connected THEN "r_check2" ELSE "r_post"
    /\ UNCHANGED <<shared, engine, sockOut, sockClosed, bgLocal, calls,
                   lastCall, lastResult, rcvTimeout, ctorError, returned,
                   closeReturned, rcvWaits, rcvEndOpenEmpty, wasConnected,
                   rcvArrived, rcvSets,
                   rcvStartClosed, rcvBlockedOpen>>

\* ... and not self.input_buffer:
ReceiveCheckBuffer ==
    /\ fgPc = "r_check2"
    /\ fgPc' = IF input_buffer = <<>> THEN "r_wait" ELSE "r_post"
    /\ UNCHANGED <<shared, engine, sockOut, sockClosed, bgLocal, calls,
                   lastCall, lastResult, rcvTimeout, ctorError, returned,
                   closeReturned, rcvWaits, rcvEndOpenEmpty, wasConnected,
                   rcvArrived, rcvSets,
                   rcvStartClosed, rcvBlockedOpen>>

\* if not self.event.wait(timeout=timeout): return None  -- entering wait
ReceiveWait ==
    /\ fgPc = "r_wait"
    /\ rcvWaits' = rcvWaits + 1
    /\ LET w == EventWait(event, rcvTimeout) IN
       /\ fgPc' = IF w = "true" THEN "r_clear"
                  ELSE IF w = "false" THEN "ready" ELSE "r_blocked"
       /\ lastResult' = IF w = "false" THEN "None" ELSE lastResult
       /\ rcvEndOpenEmpty' = IF w = "false"
                             THEN (connected /\ input_buffer = <<>>)
                             ELSE rcvEndOpenEmpty
       /\ rcvBlockedOpen' = (rcvBlockedOpen \/ (w = "park" /\ connected))
    /\ UNCHANGED <<shared, engine, sockOut, sockClosed, bgLocal, calls,
                   lastCall, rcvTimeout, ctorError, returned, closeReturned,
                   wasConnected, rcvArrived, rcvSets,
                   rcvStartClosed>>

\* the sleeping wait() is woken by set()
ReceiveWake ==
    /\ fgPc = "r_blocked"
    /\ event
    /\ fgPc' = "r_clear"
    /\ UNCHANGED <<shared, engine, sockOut, sockClosed, bgLocal, calls,
                   lastCall, lastResult, rcvTimeout, ctorError, returned,
                   closeReturned, rcvWaits, rcvEndOpenEmpty, wasConnected,
                   rcvArrived, rcvSets,
                   rcvStartClosed, rcvBlockedOpen>>

\* the sleeping wait() times out: return None
ReceiveTimeout ==
    /\ fgPc = "r_blocked"
    /\ rcvTimeout = "pos"
    /\ ~event
    /\ fgPc' = "ready"
    /\ lastResult' = "None"
    /\ rcvEndOpenEmpty' = (connected /\ input_buffer = <<>>)
    /\ UNCHANGED <<shared, engine, sockOut, sockClosed, bgLocal, calls,
                   lastCall, rcvTimeout, ctorError, returned, closeReturned,
                   rcvWaits, wasConnected, rcvArrived, rcvSets,
                   rcvStartClosed, rcvBlockedOpen>>

\* self.event.clear()
ReceiveClear ==
    /\ fgPc = "r_clear"
    /\ event' = FALSE
    /\ fgPc' = "r_check"
    /\ UNCHANGED <<is_server, connected, input_buffer, engine, sockOut,
                   sockClosed, bgLocal, calls, lastCall, lastResult,
                   rcvTimeout, ctorError, returned, closeReturned, rcvWaits,
                   rcvEndOpenEmpty, wasConnected, rcvArrived, rcvSets,
                   rcvStartClosed, rcvBlockedOpen>>

\* receive: the test that decides between raising and popping
\*   if not self.connected: raise ConnectionClosed()
ReceiveRaises(c, buf) == ~c

ReceivePost ==
    /\ fgPc = "r_post"
    /\ IF ReceiveRaises(connected, input_buffer)
       THEN /\ fgPc' = "ready"
            /\ lastResult' = "ConnectionClosed"
            /\ rcvEndOpenEmpty' = (connected /\ input_buffer = <<>>)
       ELSE /\ fgPc' = "r_pop"
            /\ UNCHANGED <<lastResult, rcvEndOpenEmpty>>
    /\ UNCHANGED <<shared, engine, sockOut, sockClosed, bgLocal, calls,
                   lastCall, rcvTimeout, ctorError, returned, closeReturned,
                   rcvWaits, wasConnected, rcvArrived, rcvSets,
                   rcvStartClosed, rcvBlockedOpen>>

\* the index self.input_buffer.pop(...) takes
PopIndexLast(buf) == Len(buf)

PopIndex(buf) == 1

\* return self.input_buffer.pop(0)
ReceivePop ==
    /\ fgPc = "r_pop"
    /\ fgPc' = "ready"
    /\ rcvEndOpenEmpty' = (connected /\ input_buffer = <<>>)
    /\ IF input_buffer = <<>>
       THEN lastResult' = "IndexError" /\ UNCHANGED <<input_buffer, returned>>
       ELSE LET i == PopIndex(input_buffer) IN
            /\ lastResult' = "Message"
            /\ returned' = Append(returned, input_buffer[i])
            /\ input_buffer' = [j \in 1..(Len(input_buffer) - 1) |->
                                  IF j < i THEN input_buffer[j]
                                  ELSE input_buffer[j + 1]]
    /\ UNCHANGED <<is_server, connected, event, engine, sockOut, sockClosed,
                   bgLocal, calls, lastCall, rcvTimeout, ctorError,
                   closeReturned, rcvWaits, wasConnected, rcvArrived, rcvSets,
                   rcvStartClosed, rcvBlockedOpen>>

\* ---------------------------------------------------------------- close()
\* close: out_data = self.ws.send(CloseConnection(...))
CloseEncode ==
    /\ fgPc = "ready"
    /\ calls < MaxCalls
    /\ calls' = calls + 1
    /\ lastCall' = "close"
    /\ IF EngineAccepts("Close", engState)
       THEN /\ fgPc' = "c_write"
            /\ lastResult' = "pending"
            /\ engState' = StateOnSendClose(engState)
       ELSE /\ fgPc' = "ready"
            /\ lastResult' = "LocalProtocolError"
            /\ UNCHANGED engState
    /\ UNCHANGED <<shared, engEvents, peerEOF, hsSeen, rejStatus, emitted, nEmitted,
                   sockOut, sockClosed, bgLocal, rcvTimeout, ctorError,
                   returned, closeReturned, rcvWaits, rcvEndOpenEmpty,
                   wasConnected, rcvArrived, rcvSets,
                   rcvStartClosed, rcvBlockedOpen>>

CloseSwallowsNothing(w) == FALSE

\* close: except BrokenPipeError: pass
CloseSwallows(w) == w = "BrokenPipeError"

\* close: try: self.sock.send(out_data) except BrokenPipeError: pass
CloseWrite ==
    /\ fgPc = "c_write"
    /\ \E w \in WriteOutcomes :
        /\ sockOut' = IF w = "ok" THEN Append(sockOut, <<"fg", "Close">>)
                      ELSE sockOut
        /\ IF w # "ok" /\ ~CloseSwallows(w)
           THEN fgPc' = "ready" /\ lastResult' = w
                /\ UNCHANGED closeReturned
           ELSE IF is_server
           THEN fgPc' = "ready" /\ lastResult' = "ok" /\ closeReturned' = TRUE
           ELSE fgPc' = "c_sockclose" /\ UNCHANGED <<lastResult, closeReturned>>
    /\ UNCHANGED <<shared, engine, sockClosed, bgLocal, calls, lastCall,
                   rcvTimeout, ctorError, returned, rcvWaits, rcvEndOpenEmpty,
                   wasConnected, rcvArrived, rcvSets,
                   rcvStartClosed, rcvBlockedOpen>>

\* Client.close: self.sock.close()
ClientSockClose ==
    /\ fgPc = "c_sockclose"
    /\ sockClosed' = TRUE
    /\ fgPc' = "ready"
    /\ lastResult' = "ok"
    /\ closeReturned' = TRUE
    /\ UNCHANGED <<shared, engine, sockOut, bgLocal, calls, lastCall,
                   rcvTimeout, ctorError, returned, rcvWaits, rcvEndOpenEmpty,
                   wasConnected, rcvArrived, rcvSets,
                   rcvStartClosed, rcvBlockedOpen>>

\* ------------------------------------------------------------- properties
RecvPcs == {"r_check", "r_check2", "r_wait", "r_blocked", "r_clear",
            "r_post", "r_pop"}
CtorPcs == {"hs", "start", "init_wait", "init_clear", "failed"}

\* a step of send(): its first statement or one of the later ones
SendStep ==
    \/ fgPc = "ready" /\ calls' = calls + 1 /\ lastCall' = "send"
    \/ fgPc \in {"s_encode", "s_write"} /\ fgPc' # fgPc

\* C1: a receive() called after the connection was open and has closed raises
\* ConnectionClosed only when pendingMessages is empty: the messages buffered
\* before the closure are handed out first.
C1_BufferedSurviveClosure ==
    [][(fgPc = "r_post" /\ fgPc' = "ready" /\ lastResult' = "ConnectionClosed"
        /\ rcvStartClosed)
       => input_buffer = <<>>]_vars

\* C2: the values receive() has returned are a prefix of the message events
\* the engine emitted: same order, payload and tag, nothing twice, nothing
\* invented.
C2_ReturnedPrefixOfEmitted ==
    /\ Len(returned) <= Len(emitted)
    /\ \A i \in 1..Len(returned) : returned[i] = emitted[i]

C2_Witness ==
    /\ Len(returned) = 2
    /\ returned[1].type # returned[2].type

\* C3: no state has the background thread exited with connected false while
\* a receive(timeout=None) that went to sleep on an empty queue of an open
\* connection still sleeps on a signal nobody will set.
C3_NoDeadlockOnClosure ==
    ~(/\ fgPc = "r_blocked"
      /\ rcvTimeout = "none"
      /\ rcvBlockedOpen
      /\ ~connected
      /\ ~event
      /\ bgPc = "done")

\* C4: a receive(timeout=None) that was blocked on an empty queue while
\* connected, and during which a message was appended, ends by returning a
\* message.
C4_ArrivalReturnsMessage ==
    (fgPc = "ready" /\ lastCall = "receive" /\ rcvArrived)
        => lastResult = "Message"

\* C5: when the constructor has returned, the first event-processing pass of
\* the background thread has completed and connected holds its result.
C5_CtorWaitsFirstPass ==
    (fgPc \notin CtorPcs) => firstDone

\* C6: send() never changes pendingMessages or connected; called while
\* connected is false it raises ConnectionClosed at once, without asking the
\* engine to encode and without writing to the transport.
C6_SendFrame ==
    [][SendStep =>
        /\ input_buffer' = input_buffer
        /\ connected' = connected
        /\ (fgPc = "ready" /\ ~connected) =>
              /\ fgPc' = "ready"
              /\ lastResult' = "ConnectionClosed"
              /\ sockOut' = sockOut
              /\ engState' = engState
              /\ engEvents' = engEvents]_vars

C6_Witness ==
    /\ fgPc = "ready"
    /\ lastCall = "send"
    /\ lastResult = "ConnectionClosed"
    /\ wasConnected
    /\ input_buffer # <<>>

\* C7: a send() made after close() has returned fails with ConnectionClosed.
C7_SendAfterCloseFails ==
    (closeReturned /\ lastCall = "send" /\ fgPc = "ready")
        => lastResult = "ConnectionClosed"

\* C8: receive(timeout=0) never sleeps in wait(): it makes at most one wait()
\* more than there were notifications for it to consume, and when it ends with
\* the connection open and the queue empty its result is the no-data result.
C8_ZeroTimeoutNeverBlocks ==
    rcvTimeout = "zero" =>
        /\ fgPc # "r_blocked"
        /\ fgPc \in RecvPcs => rcvWaits <= rcvSets + 1
        /\ (fgPc = "ready" /\ lastCall = "receive" /\ rcvEndOpenEmpty)
              => lastResult = "None"

\* a zero-timeout receive() that found a stale signal, cleared it, checked
\* again and returned None with the connection still open
C8_Witness ==
    /\ rcvTimeout = "zero"
    /\ fgPc = "ready"
    /\ lastCall = "receive"
    /\ lastResult = "None"
    /\ rcvWaits = 2
    /\ rcvEndOpenEmpty

\* C9: a client whose peer answers with a rejection of status S fails in the
\* constructor with a ConnectionError carrying S: no thread is started,
\* connected is never true and nothing is queued.
C9_RejectionRaises ==
    (~is_server /\ hsSeen = "reject") =>
        /\ fgPc = "failed"
        /\ ctorError = rejStatus
        /\ bgPc = "notstarted"
        /\ ~wasConnected
        /\ input_buffer = <<>>

\* C10: while the engine of a client has emitted neither the acceptance nor
\* the rejection, the background thread is not started and connected is false.
C10_HandshakeUntilSettled ==
    (~is_server /\ hsSeen = "none") =>
        /\ bgPc = "notstarted"
        /\ ~connected

\* a step of close(): its first statement or one of the later ones
CloseStep ==
    \/ fgPc = "ready" /\ calls' = calls + 1 /\ lastCall' = "close"
    \/ fgPc \in {"c_write", "c_sockclose"} /\ fgPc' # fgPc

\* steps of _handle_events and _thread
DispatchStep == bgPc = "he_next" /\ engEvents # <<>> /\ engEvents' # engEvents
FlushStep == bgPc = "he_next" /\ engEvents = <<>> /\ bgPc' # bgPc
ReturnStep == bgPc = "he_ret" /\ bgPc' # bgPc
FeedStep == bgPc = "recv" /\ bgPc' = "he_next"

Count(seq, x) == Cardinality({i \in DOMAIN seq : seq[i] = x})
BgWrites == {i \in DOMAIN sockOut : sockOut[i][1] = "bg"}

\* C11: a ping is never queued; when a batch with a ping and with neither a
\* close event nor a protocol error ends, one pong per ping is written to the
\* transport (unless that write raises) and connected is true afterwards.
C11_PingTransparency ==
    [][/\ \A i \in DOMAIN input_buffer' : IsMsg(input_buffer'[i])
       /\ (DispatchStep /\ Head(engEvents).type = "Ping")
             => input_buffer' = input_buffer
       /\ (FlushStep /\ bgPc' = "he_ret" /\ keep_going /\ batchPings > 0)
             => /\ sockOut' = Append(sockOut, <<"bg", out_data>>)
                /\ Count(out_data, "Pong") = batchPings
       /\ (ReturnStep /\ keep_going /\ batchPings > 0) => connected']_vars

C11_Witness ==
    /\ bgPc = "recv"
    /\ connected
    /\ batchPings = 2
    /\ sockOut # <<>>
    /\ sockOut[Len(sockOut)] = <<"bg", <<"Pong", "Pong">>>>
    /\ input_buffer = <<>>

\* C12: once a close event has been dispatched the thread reads no more, and
\* when it has stopped connected is false; without a protocol error the last
\* write of a server's loop holds the close response, and a client's loop
\* has written no close response.
C12_CloseEventEndsThread ==
    closeSeen =>
        /\ bgPc # "recv"
        /\ bgPc \in {"done", "crashed"} => ~connected
        /\ (bgPc = "done" /\ ~errSeen /\ is_server) =>
              \E i \in BgWrites :
                  /\ \A j \in BgWrites : j <= i
                  /\ Count(sockOut[i][2], "Close") = 1
        /\ ~is_server => \A i \in BgWrites : Count(sockOut[i][2], "Close") = 0

\* C13: no step of close() changes connected or pendingMessages, a
\* BrokenPipeError of its write is not raised to the caller, and connected
\* changes only in steps of the background thread.
C13_CloseFrame ==
    [][/\ CloseStep => /\ connected' = connected
                       /\ input_buffer' = input_buffer
                       /\ lastResult' # "BrokenPipeError"
       /\ connected' # connected => (bgPc' # bgPc /\ fgPc' = fgPc)]_vars

\* close() has returned normally although its write failed, and connected is
\* still true
C13_Witness ==
    /\ fgPc = "ready"
    /\ lastCall = "close"
    /\ lastResult = "ok"
    /\ closeReturned
    /\ connected
    /\ \A i \in DOMAIN sockOut : sockOut[i] # <<"fg", "Close">>

\* C14: after a transport read that returned zero bytes the connection is
\* marked not-connected and the loop is over.
C14_EmptyReadCloses ==
    peerEOF => (~connected /\ bgPc \in {"err_set", "done"})

\* C15: the background thread never stops on a failed transport write with
\* connected still true.
C15_WriteFailureCloses ==
    bgPc = "crashed" => ~connected

BgEngineStep ==
    \/ FeedStep
    \/ DispatchStep /\ ReplyOf(Head(engEvents)) # <<>>
    \/ FlushStep /\ out_data # <<>>

\* C17: while the caller is between the engine's encoding and the end of the
\* transport write of send() or close(), the background thread neither feeds
\* the engine, nor dispatches an event that asks it for a reply, nor writes.
C17_Serialized ==
    [][(fgPc \in {"s_write", "c_write"}) => ~BgEngineStep]_vars

\* C18: connected turns true only at the end of the first pass and never
\* after it has been true; once it has been true and is false, nothing more
\* is appended to pendingMessages.
C18_ConnectedMonotonic ==
    [][/\ (~connected /\ connected') => (~wasConnected /\ ~firstDone)
       /\ (wasConnected /\ ~connected)
             => Len(input_buffer') <= Len(input_buffer)]_vars

C18_Witness ==
    /\ wasConnected
    /\ ~connected
    /\ bgPc = "done"
    /\ closeSeen
    /\ input_buffer # <<>>

\* C19: after a close event has been dispatched, no message is appended to
\* pendingMessages and no reply is added to the outgoing bytes.
C19_StopAtClose ==
    [][closeSeen => /\ Len(input_buffer') <= Len(input_buffer)
                    /\ Len(out_data') <= Len(out_data)]_vars

\* C20: a finished receive(timeout=None) has returned a message or raised
\* ConnectionClosed, never the no-data result.
C20_NoTimeoutNeverNone ==
    (lastCall = "receive" /\ rcvTimeout = "none" /\ fgPc = "ready")
        => lastResult \in {"Message", "ConnectionClosed"}

\* a receive(timeout=None) that found a stale signal, checked again, slept
\* and then returned a message
C20_Witness ==
    /\ lastCall = "receive"
    /\ rcvTimeout = "none"
    /\ fgPc = "ready"
    /\ lastResult = "Message"
    /\ rcvWaits = 2
    /\ rcvBlockedOpen

Next ==
    \/ ServerHandshake
    \/ ClientHandshake
    \/ ThreadStart
    \/ InitWait
    \/ InitClear
    \/ HandleEvent
    \/ HandleSet
    \/ HandleFlush
    \/ HandleReturn
    \/ FirstSet
    \/ ThreadRecv
    \/ ThreadRecvEOF
    \/ ThreadRecvError
    \/ ThreadErrorSet
    \/ SendCheck
    \/ SendEncode
    \/ SendWrite
    \/ ReceiveCall
    \/ ReceiveCheckConnected
    \/ ReceiveCheckBuffer
    \/ ReceiveWait
    \/ ReceiveWake
    \/ ReceiveTimeout
    \/ ReceiveClear
    \/ ReceivePost
    \/ ReceivePop
    \/ CloseEncode
    \/ CloseWrite
    \/ ClientSockClose

Spec == Init /\ [][Next]_vars
====
